---------------------------- MODULE Spec2Model ----------------------------
(***************************************************************************)
(* A model of script.js: the chart digitiser's event handlers (upload,     *)
(* reset, undo, canvas click, Set Calibration, computeResults, crop toggle *)
(* crop gestures, Apply Crop) acting on the module-level state.            *)
(*                                                                         *)
(* Each handler is one action and runs to completion, as on the browser's  *)
(* single event thread.  The two asynchronous completions (the upload's    *)
(* reader.onload/decode and the crop's newImage.onload) are actions of     *)
(* their own, taken for a load that is in flight.                          *)
(*                                                                         *)
(* Numbers.  The data values (the bounds, the values the map gives, the    *)
(* totals) are IEEE-754 doubles, computed bit for bit.  Pixel and CSS      *)
(* coordinates are exact rationals <<n, d>> in lowest terms with d > 0     *)
(* (<<0, 0>> is NaN): with the sizes used below they are small integers    *)
(* and halves, thirds, ... of them, and their rounding is not modelled.    *)
(***************************************************************************)
EXTENDS Integers, Sequences, FiniteSets, TLC

(***************************************************************************)
(* Number arithmetic                                                       *)
(***************************************************************************)
RECURSIVE Gcd(_, _)
Gcd(a, b) == IF b = 0 THEN a ELSE Gcd(b, a % b)

Abs(n) == IF n < 0 THEN -n ELSE n

NaN == <<0, 0>>

IsNaN(q) == q[2] = 0

\* the Number n/d, d # 0, in lowest terms
Q(n, d) ==
    LET g == Gcd(Abs(n), Abs(d))
        s == IF d < 0 THEN -1 ELSE 1
    IN  <<(s * n) \div g, (s * d) \div g>>

Num(n) == <<n, 1>>

QAdd(a, b) == IF IsNaN(a) \/ IsNaN(b) THEN NaN
              ELSE Q(a[1] * b[2] + b[1] * a[2], a[2] * b[2])

QSub(a, b) == IF IsNaN(a) \/ IsNaN(b) THEN NaN
              ELSE Q(a[1] * b[2] - b[1] * a[2], a[2] * b[2])

QMul(a, b) == IF IsNaN(a) \/ IsNaN(b) THEN NaN
              ELSE Q(a[1] * b[1], a[2] * b[2])

\* a / b; every divisor in the program is non-zero where it is used (the
\* canvas and its rectangle have positive sizes, pixelRange is checked), so
\* JavaScript's Infinity is never produced and is folded into NaN here
QDiv(a, b) == IF IsNaN(a) \/ IsNaN(b) \/ b[1] = 0 THEN NaN
              ELSE Q(a[1] * b[2], a[2] * b[1])

\* comparisons with NaN are false, as in JavaScript
QLt(a, b) == ~IsNaN(a) /\ ~IsNaN(b) /\ a[1] * b[2] < b[1] * a[2]

QLe(a, b) == ~IsNaN(a) /\ ~IsNaN(b) /\ a[1] * b[2] <= b[1] * a[2]

QAbs(a) == <<Abs(a[1]), a[2]>>

\* Math.min, Math.max
MathMin(a, b) == IF IsNaN(a) \/ IsNaN(b) THEN NaN ELSE IF QLt(b, a) THEN b ELSE a

MathMax(a, b) == IF IsNaN(a) \/ IsNaN(b) THEN NaN ELSE IF QLt(a, b) THEN b ELSE a

\* Math.round: the nearest integer, halves towards +Infinity; an Int
MathRound(a) == (2 * a[1] + a[2]) \div (2 * a[2])

\* the tolerance 1e-6 of the calibration check
Epsilon == Q(1, 1000000)


(***************************************************************************)
(* Natural numbers of any size, as sequences of limbs in base 2^14, lowest *)
(* limb first and no zero limb at the top (0 is the empty sequence).       *)
(***************************************************************************)
Base == 2^14

Limb(a, i) == IF i \in 1..Len(a) THEN a[i] ELSE 0

RECURSIVE BNorm(_)
BNorm(a) == IF a # <<>> /\ a[Len(a)] = 0 THEN BNorm(SubSeq(a, 1, Len(a) - 1)) ELSE a

RECURSIVE BFromNat(_)
BFromNat(n) == IF n = 0 THEN <<>> ELSE <<n % Base>> \o BFromNat(n \div Base)

RECURSIVE BToNat(_)
BToNat(a) == IF a = <<>> THEN 0 ELSE a[1] + Base * BToNat(Tail(a))

BAdd(a, b) ==
    LET n == IF Len(a) > Len(b) THEN Len(a) ELSE Len(b)
        carry[i \in 0..n] ==
            IF i = 0 THEN 0 ELSE (Limb(a, i) + Limb(b, i) + carry[i - 1]) \div Base
    IN  BNorm([i \in 1..(n + 1) |->
                  IF i <= n THEN (Limb(a, i) + Limb(b, i) + carry[i - 1]) % Base
                  ELSE carry[n]])

\* a - b, for a >= b
BSub(a, b) ==
    LET n == Len(a)
        borrow[i \in 0..n] ==
            IF i = 0 THEN 0
            ELSE IF a[i] - Limb(b, i) - borrow[i - 1] < 0 THEN 1 ELSE 0
    IN  BNorm([i \in 1..n |-> (a[i] - Limb(b, i) - borrow[i - 1]) % Base])

BLt(a, b) ==
    \/ Len(a) < Len(b)
    \/ /\ Len(a) = Len(b)
       /\ \E i \in 1..Len(a) : a[i] < b[i] /\ \A j \in (i + 1)..Len(a) : a[j] = b[j]

\* a * b, where one of the two has at most 7 limbs
BMul(a, b) ==
    LET n == Len(a) + Len(b)
        col[k \in 1..n] ==
            LET RECURSIVE sum(_)
                sum(i) == IF i > Len(a) THEN 0
                          ELSE a[i] * Limb(b, k + 1 - i) + sum(i + 1)
            IN  sum(1)
        carry[k \in 0..n] == IF k = 0 THEN 0 ELSE (col[k] + carry[k - 1]) \div Base
    IN  IF a = <<>> \/ b = <<>> THEN <<>>
        ELSE BNorm([k \in 1..n |-> (col[k] + carry[k - 1]) % Base])

\* the quotient and the remainder of a by d, 0 < d <= 2^17
BDivSmall(a, d) ==
    LET n == Len(a)
        rem[i \in 1..(n + 1)] ==
            IF i = n + 1 THEN 0 ELSE (rem[i + 1] * Base + a[i]) % d
    IN  [q |-> BNorm([i \in 1..n |-> (rem[i + 1] * Base + a[i]) \div d]),
         r |-> rem[1]]

\* a * 2^k and the integer part of a / 2^k
BShl(a, k) ==
    IF a = <<>> THEN <<>>
    ELSE [i \in 1..(k \div 14) |-> 0] \o BMul(a, <<2^(k % 14)>>)

BShr(a, k) ==
    LET q == k \div 14
        r == k % 14
        n == Len(a) - q
    IN  IF n <= 0 THEN <<>>
        ELSE BNorm([i \in 1..n |->
                       (a[q + i] \div 2^r) + (Limb(a, q + i + 1) % 2^r) * 2^(14 - r)])

RECURSIVE BitLenNat(_)
BitLenNat(n) == IF n = 0 THEN 0 ELSE 1 + BitLenNat(n \div 2)

\* the number of bits of a
BitLen(a) == IF a = <<>> THEN 0 ELSE 14 * (Len(a) - 1) + BitLenNat(a[Len(a)])

BOdd(a) == a # <<>> /\ a[1] % 2 = 1

(***************************************************************************)
(* IEEE-754 binary64 arithmetic.  A finite double is [s, m, e] and stands  *)
(* for (-1)^s * m * 2^e, where m has exactly 53 bits; zero has the empty   *)
(* m.  The values met are far from the subnormal and the overflow range,   *)
(* and -0 is not told from 0: none of the values is ever a divisor.        *)
(***************************************************************************)
\* the bits of the significand
Precision == 53

F64Zero == [s |-> 0, m |-> <<>>, e |-> 0]

F64NaN == [s |-> 0, m |-> <<>>, e |-> 1]

\* (-1)^s * (n + f) * 2^e, 0 <= f < 1 and f # 0 iff sticky, rounded to the
\* nearest double, ties to the even significand; n has 54 bits or more
\* when sticky
F64Round(s, n, e, sticky) ==
    LET len == BitLen(n)
        sh == len - Precision
        q == BShr(n, sh)
        guard == BOdd(BShr(n, sh - 1))
        rest == sticky \/ BShl(BShr(n, sh - 1), sh - 1) # n
        up == guard /\ (rest \/ BOdd(q))
        q1 == IF up THEN BAdd(q, <<1>>) ELSE q
    IN  IF n = <<>> THEN F64Zero
        ELSE IF sh <= 0 THEN [s |-> s, m |-> BShl(n, -sh), e |-> e + sh]
        ELSE IF BitLen(q1) > Precision THEN [s |-> s, m |-> BShr(q1, 1), e |-> e + sh + 1]
        ELSE [s |-> s, m |-> q1, e |-> e + sh]

\* the double nearest to the rational q; its denominator is at most 2^17
F64FromQ(q) ==
    IF IsNaN(q) THEN F64NaN
    ELSE LET d == BDivSmall(BShl(BFromNat(Abs(q[1])), 72), q[2])
         IN  F64Round(IF q[1] < 0 THEN 1 ELSE 0, d.q, -72, d.r # 0)

F64Neg(x) == IF x.m = <<>> THEN x ELSE [x EXCEPT !.s = 1 - x.s]

F64Add(x, y) ==
    IF x = F64NaN \/ y = F64NaN THEN F64NaN
    ELSE IF x.m = <<>> THEN y
    ELSE IF y.m = <<>> THEN x
    ELSE LET e == IF x.e < y.e THEN x.e ELSE y.e
             nx == BShl(x.m, x.e - e)
             ny == BShl(y.m, y.e - e)
         IN  IF x.s = y.s THEN F64Round(x.s, BAdd(nx, ny), e, FALSE)
             ELSE IF nx = ny THEN F64Zero
             ELSE IF BLt(nx, ny) THEN F64Round(y.s, BSub(ny, nx), e, FALSE)
             ELSE F64Round(x.s, BSub(nx, ny), e, FALSE)

F64Sub(x, y) == F64Add(x, F64Neg(y))

F64Mul(x, y) ==
    IF x = F64NaN \/ y = F64NaN THEN F64NaN
    ELSE F64Round((x.s + y.s) % 2, BMul(x.m, y.m), x.e + y.e, FALSE)

\* the n / 100 nearest to the double x, the larger n of two, as a rational
F64ToFixed2(x) ==
    LET c == BMul(x.m, <<100>>)
        n == IF x.e >= 0 THEN BShl(c, x.e)
             ELSE BShr(BAdd(c, BShl(<<1>>, -x.e - 1)), -x.e)
    IN  Q((IF x.s = 1 THEN -1 ELSE 1) * BToNat(n), 100)

(***************************************************************************)
(* The Number of the data values: a double.  A double that is n / d with   *)
(* d a power of two up to 2^8 and |n| < 2^20 is kept as the rational       *)
(* <<n, d>>, and arithmetic whose exact result is such a rational is done  *)
(* on rationals (the exact result is then the double the operation gives); *)
(* every other double is kept as <<s, e>> \o m.  NaN is <<0, 0>>.          *)
(***************************************************************************)
IsSmall(q) == q[2] \in {2^j : j \in 0..8} /\ Abs(q[1]) < 2^20

Unpack(x) ==
    IF Len(x) = 2 THEN F64FromQ(x) ELSE [s |-> x[1], m |-> SubSeq(x, 3, Len(x)), e |-> x[2]]

Pack(b) ==
    LET k == -b.e
        js == {j \in 0..8 : /\ k - j \in 33..52
                            /\ BShl(BShr(b.m, k - j), k - j) = b.m}
        j0 == CHOOSE j \in js : \A i \in js : j <= i
    IN  IF b = F64NaN THEN NaN
        ELSE IF b.m = <<>> THEN Num(0)
        ELSE IF js = {} THEN <<b.s, b.e>> \o b.m
        ELSE <<(IF b.s = 1 THEN -1 ELSE 1) * BToNat(BShr(b.m, k - j0)), 2^j0>>

\* the double nearest to the rational q, |q[1]| < 2^31 and q[2] <= 2^17
NumFromQ(q) == IF IsNaN(q) \/ IsSmall(q) THEN q ELSE Pack(F64FromQ(q))

Number_isNaN(x) == x = NaN

NumAdd(x, y) ==
    IF Number_isNaN(x) \/ Number_isNaN(y) THEN NaN
    ELSE IF Len(x) = 2 /\ Len(y) = 2 THEN NumFromQ(QAdd(x, y))
    ELSE Pack(F64Add(Unpack(x), Unpack(y)))

NumSub(x, y) ==
    IF Number_isNaN(x) \/ Number_isNaN(y) THEN NaN
    ELSE IF Len(x) = 2 /\ Len(y) = 2 THEN NumFromQ(QSub(x, y))
    ELSE Pack(F64Sub(Unpack(x), Unpack(y)))

NumMul(x, y) ==
    IF Number_isNaN(x) \/ Number_isNaN(y) THEN NaN
    ELSE IF Len(x) = 2 /\ Len(y) = 2
            /\ (x[1] = 0 \/ Abs(y[1]) <= 2^30 \div Abs(x[1]))
    THEN NumFromQ(QMul(x, y))
    ELSE Pack(F64Mul(Unpack(x), Unpack(y)))

\* Number.prototype.toFixed(2): the text with two decimals, kept as the
\* rational it denotes: the n / 100 nearest to x, the larger n of two
toFixed2(x) ==
    IF Number_isNaN(x) THEN NaN
    ELSE IF Len(x) = 2
    THEN Q((IF x[1] < 0 THEN -1 ELSE 1) * ((200 * Abs(x[1]) + x[2]) \div (2 * x[2])), 100)
    ELSE F64ToFixed2(Unpack(x))

(***************************************************************************)
(* The page and the user: what the handlers read from outside script.js    *)
(***************************************************************************)
\* the canvas element's width and height attributes when the script starts
CanvasW0 == 4

CanvasH0 == 6

\* canvas.getBoundingClientRect(): the canvas is laid out in a box of fixed
\* CSS size at a fixed place of the viewport
RectLeft == 2

RectTop == 1

RectW == 4

RectH == 6

getCanvasRect == [left |-> RectLeft, top |-> RectTop, width |-> RectW, height |-> RectH]

\* the pointer position (clientX, clientY) at CSS offset (cssX, cssY) of the canvas
Client(cssX, cssY) == <<RectLeft + cssX, RectTop + cssY>>

\* the files the user may choose, and the size each decodes to
Files == {"a.png", "b.png"}

NaturalSize(f) ==
    CASE f = "a.png" -> <<4, 6>>
      [] f = "c.png" -> <<1, 2>>
      [] OTHER -> <<6, 9>>

\* how many image loads (uploads being read and decoded, crops being
\* re-encoded) are let to be in flight at once
MaxLoads == 1

\* how many crops are applied in a session
MaxCrops == 1

\* the places of the canvas the user points at: the bottom axis reference,
\* the top one, and one midway between them
Marks == <<Client(1, RectH - 1), Client(RectW - 1, 1), Client(2, (RectH + 1) \div 2)>>

\* the two axis references the user clicks while calibrating
AxisMarks == {Marks[1], Marks[2]}

\* the chart's curve: where the n-th data point (n = 1..12) is on screen
Curve(n) == Marks[((n + 1) % 3) + 1]

\* where the user presses and moves to with crop mode on
CropMarks == {Marks[1], Marks[2], Marks[3]}

\* the texts typed into the Y-min and Y-max fields
YminTexts == {"0", "abc"}

YmaxTexts == {"1000", "2000"}

\* the decimal number a text starts with, NaN if there is none
decimal(t) ==
    CASE t = "0" -> Num(0)
      [] t = "1000" -> Num(1000)
      [] t = "2000" -> Num(2000)
      [] t = "0.2" -> Q(2, 10)
      [] t = "0.5" -> Q(5, 10)
      [] t = "0.9" -> Q(9, 10)
      [] OTHER -> NaN

\* parseFloat: the double nearest to that number
parseFloat(t) == NumFromQ(decimal(t))

\* the options of the mode and start-month selects
ModeOptions == {"Total", "Daily average"}

calendarNames == <<"Jan", "Feb", "Mar", "Apr", "May", "Jun",
                   "Jul", "Aug", "Sep", "Oct", "Nov", "Dec">>

daysInMonth == <<31, 28, 31, 30, 31, 30, 31, 31, 30, 31, 30, 31>>

\* Array.prototype.indexOf on the month names: 0-based, -1 when absent
indexOf(names, v) ==
    IF \E i \in 1..Len(names) : names[i] = v
    THEN (CHOOSE i \in 1..Len(names) :
              names[i] = v /\ \A j \in 1..(i - 1) : names[j] # v) - 1
    ELSE -1

\* null, and a value that is there
Null == <<>>

Some(v) == <<v>>

(***************************************************************************)
(* State                                                                   *)
(***************************************************************************)
VARIABLES
    origImg,        \* the original image: Null or [file, x, y, width, height]
    origW, origH,   \* its recorded dimensions
    img,            \* the image drawn onto the canvas
    canvas,         \* [width, height]: the canvas raster size
    calib,          \* calibration points, each <<cx, cy>>
    monthPts,       \* month points, each <<cx, cy>>
    affine,         \* Null or Some([vmin, yb, pixelRange, dataRange]), the
                    \* values the closure of line 187 holds
    mode, startIdx, \* as stored by Set Calibration; undefined before
    cropStart,      \* Null or Some([cssX, cssY, cx, cy])
    isCropping, isDragging,
    dragOffset,     \* Null or Some([cssDx, cssDy])
    cropBox,        \* [x, y, w, h] in canvas pixels
    cropRect,       \* the crop rectangle's style: [display, left, top, width,
                    \* height]; a length is Null (not set) or Some(q) for "qpx"
    applyCropBtn,   \* the Apply button's style.display
    resultsTable,   \* the results table: [header, rows], each row
                    \* [monthName, axisVal, finalVal] as the texts shown
    annualLabel,    \* Null or Some(total shown)
    yminEl, ymaxEl, modeEl, startEl,   \* the values of the input fields
    loads,          \* the image loads in flight
    ptr,            \* the pointer: "up", "down" (pressed on the canvas and
                    \* still over it), "click" (released, the click event
                    \* is due)
    pos,            \* Null or Some(<<clientX, clientY>>) while pressed
    nCrops,         \* how many crops have been started
    maxInFlight,    \* the user starts a load only while fewer than this many
                    \* are in flight (fixed in a behaviour)
    late,           \* whether the load that completed in the last step had
                    \* been requested before one that completed before it
    last,           \* which of the three handlers that clear the points ran
                    \* in the last step: "reset", "reader.onload" or
                    \* "newImage.onload"; "" after any other handler
    alert,          \* the message the last handler showed with alert(), or ""
    ran             \* whether the last handler ran computeResults past its guard

vars == <<origImg, origW, origH, img, canvas, calib, monthPts, affine, mode,
          startIdx, cropStart, isCropping, isDragging, dragOffset, cropBox,
          cropRect, applyCropBtn, resultsTable, annualLabel, yminEl, ymaxEl,
          modeEl, startEl, loads, ptr, pos, nCrops, maxInFlight, late, last, alert,
          ran>>

imageVars == <<origImg, origW, origH, img, canvas>>

pointVars == <<calib, monthPts, affine, mode, startIdx>>

cropVars == <<cropStart, isCropping, isDragging, dragOffset, cropBox, cropRect,
              applyCropBtn>>

resultVars == <<resultsTable, annualLabel>>

fieldVars == <<yminEl, ymaxEl, modeEl, startEl>>

loadVars == <<loads, nCrops, maxInFlight>>

Undefined == "undefined"

\* innerHTML = ''
EmptyTable == [header |-> FALSE, rows |-> <<>>]

ZeroBox == [x |-> Num(0), y |-> Num(0), w |-> Num(0), h |-> Num(0)]

Init ==
    /\ origImg = Null /\ origW = 0 /\ origH = 0 /\ img = Null
    /\ canvas = [width |-> CanvasW0, height |-> CanvasH0]
    /\ calib = <<>> /\ monthPts = <<>> /\ affine = Null
    /\ mode = Undefined /\ startIdx = Null
    /\ cropStart = Null /\ isCropping = FALSE /\ isDragging = FALSE
    /\ dragOffset = Null /\ cropBox = ZeroBox
    /\ cropRect = [display |-> "", left |-> Null, top |-> Null, width |-> Null,
                   height |-> Null]
    /\ applyCropBtn = ""
    /\ resultsTable = EmptyTable /\ annualLabel = Null
    /\ yminEl = "0" /\ ymaxEl = "1000" /\ modeEl = "Total" /\ startEl = "Jan"
    /\ loads = {}
    /\ ptr = "up" /\ pos = Null
    /\ nCrops = 0 /\ maxInFlight = MaxLoads
    /\ last = "" /\ late = FALSE /\ alert = "" /\ ran = FALSE


(***************************************************************************)
(* Helpers - coordinates                                                   *)
(***************************************************************************)
getCanvasPointFromClient(clientX, clientY) ==
    LET rect == getCanvasRect
        cssX == Num(clientX - rect.left)
        cssY == Num(clientY - rect.top)
        scaleX == QDiv(Num(canvas.width), Num(rect.width))
        scaleY == QDiv(Num(canvas.height), Num(rect.height))
    IN  [cx |-> QMul(cssX, scaleX), cy |-> QMul(cssY, scaleY),
         cssX |-> cssX, cssY |-> cssY, scaleX |-> scaleX, scaleY |-> scaleY]

\* the clamp with the width and height limited from the box's own origin
\* instead of the clamped one
clampCanvasBox_rawOrigin(box) ==
    [x |-> MathMax(Num(0), MathMin(Num(canvas.width), Num(MathRound(box.x)))),
     y |-> MathMax(Num(0), MathMin(Num(canvas.height), Num(MathRound(box.y)))),
     w |-> MathMax(Num(0), MathMin(QSub(Num(canvas.width), Num(MathRound(box.x))),
                                   Num(MathRound(box.w)))),
     h |-> MathMax(Num(0), MathMin(QSub(Num(canvas.height), Num(MathRound(box.y))),
                                   Num(MathRound(box.h))))]

clampCanvasBox(box) ==
    LET x == MathMax(Num(0), MathMin(Num(canvas.width), Num(MathRound(box.x))))
        y == MathMax(Num(0), MathMin(Num(canvas.height), Num(MathRound(box.y))))
        w == MathMax(Num(0), MathMin(QSub(Num(canvas.width), x), Num(MathRound(box.w))))
        h == MathMax(Num(0), MathMin(QSub(Num(canvas.height), y), Num(MathRound(box.h))))
    IN  [x |-> x, y |-> y, w |-> w, h |-> h]

(***************************************************************************)
(* Compute results                                                         *)
(***************************************************************************)
\* the closure with the pixel difference taken the other way round
affineAt_downwards(f, x, y) ==
    NumAdd(f.vmin, NumMul(NumFromQ(QDiv(QSub(y, f.yb), f.pixelRange)), f.dataRange))

\* the closure of line 187 applied to (x, y)
affineAt(f, x, y) ==
    NumAdd(f.vmin, NumMul(NumFromQ(QDiv(QSub(f.yb, y), f.pixelRange)), f.dataRange))

\* JavaScript's %: the remainder has the sign of the dividend
JsMod(a, b) == IF a >= 0 THEN a % b ELSE -((-a) % b)

\* the day table read one month early
daysAt_shifted(k) ==
    IF k \in 1..Len(daysInMonth) THEN Num(daysInMonth[k]) ELSE NaN

\* an array element as a factor: undefined (index out of range) makes NaN
daysAt(k) ==
    IF k \in 0..(Len(daysInMonth) - 1) THEN Num(daysInMonth[k + 1]) ELSE NaN

\* an array element in a template string
nameAt(k) == IF k \in 0..(Len(calendarNames) - 1) THEN calendarNames[k + 1] ELSE Undefined

\* the loop of lines 199-210 from index i on: the rows appended and the total
RECURSIVE resultRows(_, _, _, _, _, _)
resultRows(i, total, rows, mp, f, ms) ==
    IF i >= 12 THEN [rows |-> rows, total |-> total]
    ELSE LET axisVal == affineAt(f, mp[i + 1][1], mp[i + 1][2])
             finalVal == IF ms.mode = "Daily average"
                         THEN NumMul(axisVal, daysAt(JsMod(ms.startIdx + i, 12)))
                         ELSE axisVal
             monthName == nameAt(JsMod(ms.startIdx + i, 12))
         IN  resultRows(i + 1, NumAdd(total, finalVal),
                        Append(rows, [monthName |-> monthName,
                                      axisVal |-> toFixed2(axisVal),
                                      finalVal |-> toFixed2(finalVal)]),
                        mp, f, ms)

\* computeResults() on the month points mp: what it leaves in the table and
\* the label, and whether it ran past its guard
computeResults(mp) ==
    IF affine = Null \/ Len(mp) < 12
    THEN [table |-> resultsTable, label |-> annualLabel, ran |-> FALSE]
    ELSE LET r == resultRows(0, Num(0), <<>>, mp, affine[1],
                             [mode |-> mode, startIdx |-> startIdx[1]])
         IN  [table |-> [header |-> TRUE, rows |-> r.rows],
              label |-> Some(toFixed2(r.total)), ran |-> TRUE]

(***************************************************************************)
(* Reset, undo, canvas click, Set Calibration                              *)
(*                                                                         *)
(* The buttons and fields are operated with the pointer: their handlers    *)
(* run while no press on the canvas is under way (ptr = "up").             *)
(***************************************************************************)
\* the reset without line 138: crop mode stays as it is
resetBtn_keepsCropMode ==
    /\ last' = "reset" /\ late' = FALSE
    /\ ptr = "up"
    /\ calib' = <<>> /\ monthPts' = <<>> /\ affine' = Null
    /\ resultsTable' = EmptyTable
    /\ annualLabel' = Null
    /\ cropRect' = [cropRect EXCEPT !.display = "none"]
    /\ applyCropBtn' = "none"
    /\ cropBox' = ZeroBox
    /\ cropStart' = Null /\ isDragging' = FALSE /\ dragOffset' = Null
    /\ alert' = "" /\ ran' = FALSE
    /\ UNCHANGED <<imageVars, mode, startIdx, fieldVars, loadVars, ptr, pos, isCropping>>

resetBtn_onclick ==
    /\ last' = "reset" /\ late' = FALSE
    /\ ptr = "up"
    /\ calib' = <<>> /\ monthPts' = <<>> /\ affine' = Null
    /\ resultsTable' = EmptyTable
    /\ annualLabel' = Null
    /\ cropRect' = [cropRect EXCEPT !.display = "none"]
    /\ applyCropBtn' = "none"
    /\ isCropping' = FALSE
    /\ cropBox' = ZeroBox
    /\ cropStart' = Null /\ isDragging' = FALSE /\ dragOffset' = Null
    /\ alert' = "" /\ ran' = FALSE
    /\ UNCHANGED <<imageVars, mode, startIdx, fieldVars, loadVars, ptr, pos>>

\* Array.prototype.shift in the place of pop: the first element goes
pop_first(pts) == SubSeq(pts, 2, Len(pts))

\* Array.prototype.pop: the array without its last element
pop(pts) == SubSeq(pts, 1, Len(pts) - 1)

undoBtn_onclick ==
    /\ last' = "" /\ late' = FALSE
    /\ ptr = "up"
    /\ monthPts' = IF Len(monthPts) > 0 THEN pop(monthPts) ELSE monthPts
    /\ alert' = "" /\ ran' = FALSE
    /\ UNCHANGED <<imageVars, calib, affine, mode, startIdx, cropVars, resultVars,
                   fieldVars, loadVars, ptr, pos>>

\* the guards of the click handler (lines 161, 164, 168) and the test of line 172
cropBlocksClick == isCropping /\ (cropStart # Null \/ cropRect.display = "block")

\* the test of line 164 written with <=
calibOpen_upTo2 == Len(calib) <= 2

calibOpen == Len(calib) < 2

\* the test of line 168 without its check of the map
monthOpen_noAffine == Len(monthPts) < 12

monthOpen == affine # Null /\ Len(monthPts) < 12

\* the test of line 172 one point early
isTwelfth_early(pts) == Len(pts) = 11

isTwelfth(pts) == Len(pts) = 12

\* what a call of computeResults leaves on the page
shown(r) == resultsTable' = r.table /\ annualLabel' = r.label /\ ran' = r.ran

\* lines 164-173 for the canvas point p
clickAt(p) ==
    IF calibOpen
    THEN /\ calib' = Append(calib, <<p.cx, p.cy>>)
         /\ UNCHANGED <<monthPts, resultVars>> /\ ran' = FALSE
    ELSE IF monthOpen
    THEN /\ monthPts' = Append(monthPts, <<p.cx, p.cy>>)
         /\ IF isTwelfth(monthPts')
            THEN shown(computeResults(monthPts'))
            ELSE UNCHANGED resultVars /\ ran' = FALSE
         /\ UNCHANGED calib
    ELSE UNCHANGED <<calib, monthPts, resultVars>> /\ ran' = FALSE

\* the click event that follows a press and a release on the canvas
canvas_click ==
    /\ last' = "" /\ late' = FALSE
    /\ ptr = "click"
    /\ ptr' = "up" /\ pos' = Null
    /\ alert' = ""
    /\ UNCHANGED <<imageVars, affine, mode, startIdx, cropVars, fieldVars, loadVars>>
    /\ IF cropBlocksClick
       THEN UNCHANGED <<calib, monthPts, resultVars>> /\ ran' = FALSE
       ELSE clickAt(getCanvasPointFromClient(pos[1][1], pos[1][2]))

\* lines 184-189: the map is built unless the two points are level
buildMap(vmin, vmax, yb, pixelRange) ==
    IF QLt(QAbs(pixelRange), Epsilon)
    THEN /\ alert' = "Calibration points too close vertically."
         /\ UNCHANGED <<affine, mode, startIdx>>
    ELSE /\ affine' = Some([vmin |-> vmin, yb |-> yb,
                            pixelRange |-> pixelRange,
                            dataRange |-> NumSub(vmax, vmin)])
         /\ mode' = modeEl
         /\ startIdx' = Some(indexOf(calendarNames, startEl))
         /\ alert' = ""

\* the handler with the map taken away when a bound is not a number
calibrate_dropsMap(yb, yt, vmin, vmax) ==
    IF Number_isNaN(vmin) \/ Number_isNaN(vmax)
    THEN /\ alert' = "Enter numeric Y-min and Y-max"
         /\ affine' = Null
         /\ UNCHANGED <<mode, startIdx>>
    ELSE buildMap(vmin, vmax, yb, QSub(yb, yt))

\* lines 181-189 for the calibration points' y and the parsed bounds
calibrate(yb, yt, vmin, vmax) ==
    IF Number_isNaN(vmin) \/ Number_isNaN(vmax)
    THEN /\ alert' = "Enter numeric Y-min and Y-max"
         /\ UNCHANGED <<affine, mode, startIdx>>
    ELSE buildMap(vmin, vmax, yb, QSub(yb, yt))

setCalibBtn_onclick ==
    /\ last' = "" /\ late' = FALSE
    /\ ptr = "up"
    /\ ran' = FALSE
    /\ UNCHANGED <<imageVars, calib, monthPts, cropVars, resultVars, fieldVars,
                   loadVars, ptr, pos>>
    /\ IF Len(calib) < 2
       THEN /\ alert' = "Select two calibration points (bottom then top) first."
            /\ UNCHANGED <<affine, mode, startIdx>>
       ELSE calibrate(calib[1][2], calib[2][2], parseFloat(yminEl), parseFloat(ymaxEl))

\* the user edits an input field (no handler of the script listens)
EditYmin(texts) ==
    /\ last' = "" /\ late' = FALSE
    /\ ptr = "up"
    /\ \E t \in texts \ {yminEl} : yminEl' = t
    /\ alert' = "" /\ ran' = FALSE
    /\ UNCHANGED <<imageVars, pointVars, cropVars, resultVars, ymaxEl, modeEl,
                   startEl, loadVars, ptr, pos>>

EditYmax(texts) ==
    /\ last' = "" /\ late' = FALSE
    /\ ptr = "up"
    /\ \E t \in texts \ {ymaxEl} : ymaxEl' = t
    /\ alert' = "" /\ ran' = FALSE
    /\ UNCHANGED <<imageVars, pointVars, cropVars, resultVars, yminEl, modeEl,
                   startEl, loadVars, ptr, pos>>

EditMode(options) ==
    /\ last' = "" /\ late' = FALSE
    /\ ptr = "up"
    /\ \E m \in options \ {modeEl} : modeEl' = m
    /\ alert' = "" /\ ran' = FALSE
    /\ UNCHANGED <<imageVars, pointVars, cropVars, resultVars, yminEl, ymaxEl,
                   startEl, loadVars, ptr, pos>>

EditStart(names) ==
    /\ last' = "" /\ late' = FALSE
    /\ ptr = "up"
    /\ \E m \in names \ {startEl} : startEl' = m
    /\ alert' = "" /\ ran' = FALSE
    /\ UNCHANGED <<imageVars, pointVars, cropVars, resultVars, yminEl, ymaxEl,
                   modeEl, loadVars, ptr, pos>>

(***************************************************************************)
(* Upload                                                                  *)
(***************************************************************************)
\* the Image a file decodes to
decoded(f) == [file |-> f, x |-> 0, y |-> 0,
               width |-> NaturalSize(f)[1], height |-> NaturalSize(f)[2]]

\* upload.onchange with the file chosen (Undefined: none): the read and the
\* decode are started and complete later
upload_onchange(files) ==
    /\ last' = "" /\ late' = FALSE
    /\ ptr = "up"
    /\ \E file \in files \cup {Undefined} :
          IF file = Undefined THEN UNCHANGED loads
          ELSE /\ Cardinality(loads) < maxInFlight
               /\ loads' = loads \cup {[kind |-> "upload", image |-> decoded(file),
                                        sw |-> 0, sh |-> 0,
                                        rank |-> Cardinality(loads), late |-> FALSE]}
    /\ alert' = "" /\ ran' = FALSE
    /\ UNCHANGED <<imageVars, pointVars, cropVars, resultVars, fieldVars, nCrops,
                   maxInFlight,
                   ptr, pos>>

\* the loads in flight once l has completed.  A load carries its place
\* (rank) in the order of the requests among those in flight, and whether a
\* load requested after it has completed before it (late).
stillPending(l) ==
    {IF p.rank > l.rank THEN [p EXCEPT !.rank = @ - 1] ELSE [p EXCEPT !.late = TRUE] :
        p \in loads \ {l}}

\* a reader.onload that writes nothing when a later request has completed
\* before it
reader_onload_dropsLate ==
    /\ last' = "reader.onload"
    /\ ptr # "click"
    /\ \E l \in loads :
          /\ l.kind = "upload"
          /\ loads' = stillPending(l)
          /\ late' = l.late
          /\ IF l.late
             THEN UNCHANGED <<origImg, origW, origH, img, calib, monthPts, affine,
                              resultVars, cropRect, applyCropBtn>>
             ELSE /\ origImg' = Some(l.image)
                  /\ origW' = l.image.width
                  /\ origH' = l.image.height
                  /\ img' = Some(l.image)
                  /\ calib' = <<>> /\ monthPts' = <<>> /\ affine' = Null
                  /\ resultsTable' = EmptyTable
                  /\ annualLabel' = Null
                  /\ cropRect' = [cropRect EXCEPT !.display = "none"]
                  /\ applyCropBtn' = "none"
    /\ alert' = "" /\ ran' = FALSE
    /\ UNCHANGED <<canvas, mode, startIdx, cropStart, isCropping, isDragging,
                   dragOffset, cropBox, fieldVars, nCrops, maxInFlight, ptr, pos>>

\* reader.onload once loaded.decode() has resolved (lines 100-122)
reader_onload ==
    /\ last' = "reader.onload"
    /\ ptr # "click"
    /\ \E l \in loads :
          /\ l.kind = "upload"
          /\ loads' = stillPending(l)
          /\ late' = l.late
          /\ origImg' = Some(l.image)
          /\ origW' = l.image.width
          /\ origH' = l.image.height
          /\ img' = Some(l.image)
    /\ calib' = <<>> /\ monthPts' = <<>> /\ affine' = Null
    /\ resultsTable' = EmptyTable
    /\ annualLabel' = Null
    /\ cropRect' = [cropRect EXCEPT !.display = "none"]
    /\ applyCropBtn' = "none"
    /\ alert' = "" /\ ran' = FALSE
    /\ UNCHANGED <<canvas, mode, startIdx, cropStart, isCropping, isDragging,
                   dragOffset, cropBox, fieldVars, nCrops, maxInFlight, ptr, pos>>

(***************************************************************************)
(* Crop toggle and crop interactions                                       *)
(***************************************************************************)
cropToggle_onclick ==
    /\ last' = "" /\ late' = FALSE
    /\ ptr = "up"
    /\ isCropping' = ~isCropping
    /\ cropRect' = [cropRect EXCEPT !.display = IF isCropping' THEN "block" ELSE "none"]
    /\ applyCropBtn' = IF isCropping' THEN "inline" ELSE "none"
    /\ cropBox' = ZeroBox
    /\ cropStart' = Null /\ isDragging' = FALSE /\ dragOffset' = Null
    /\ alert' = "" /\ ran' = FALSE
    /\ UNCHANGED <<imageVars, pointVars, resultVars, fieldVars, loadVars, ptr, pos>>

\* parseFloat(style || '0') of a length of the crop rectangle's style
stylePx(v) == IF v = Null THEN Num(0) ELSE v[1]

\* the hit test of lines 238-240 for the point p
inside(p) ==
    LET cssLeft == stylePx(cropRect.left)
        cssTop == stylePx(cropRect.top)
        cssW == stylePx(cropRect.width)
        cssH == stylePx(cropRect.height)
    IN  /\ QLt(Num(0), cssW) /\ QLt(Num(0), cssH)
        /\ QLe(cssLeft, p.cssX) /\ QLe(p.cssX, QAdd(cssLeft, cssW))
        /\ QLe(cssTop, p.cssY) /\ QLe(p.cssY, QAdd(cssTop, cssH))

\* the mousedown handler's body (lines 230-254) for the canvas point p
mousedownAt(p) ==
    IF ~isCropping
    THEN UNCHANGED <<cropStart, isDragging, dragOffset, cropBox, cropRect>>
    ELSE IF inside(p)
    THEN /\ isDragging' = TRUE
         /\ dragOffset' = Some([cssDx |-> QSub(p.cssX, stylePx(cropRect.left)),
                                cssDy |-> QSub(p.cssY, stylePx(cropRect.top))])
         /\ UNCHANGED <<cropStart, cropBox, cropRect>>
    ELSE /\ cropStart' = Some([cssX |-> p.cssX, cssY |-> p.cssY,
                               cx |-> p.cx, cy |-> p.cy])
         /\ cropBox' = [x |-> p.cx, y |-> p.cy, w |-> Num(0), h |-> Num(0)]
         /\ cropRect' = [display |-> "block", left |-> Some(p.cssX),
                         top |-> Some(p.cssY), width |-> Some(Num(0)),
                         height |-> Some(Num(0))]
         /\ UNCHANGED <<isDragging, dragOffset>>

canvas_mousedown(targets) ==
    /\ last' = "" /\ late' = FALSE
    /\ ptr = "up"
    /\ \E at \in targets :
          /\ pos' = Some(at)
          /\ mousedownAt(getCanvasPointFromClient(at[1], at[2]))
    /\ ptr' = "down"
    /\ alert' = "" /\ ran' = FALSE
    /\ UNCHANGED <<imageVars, pointVars, isCropping, applyCropBtn, resultVars,
                   fieldVars, loadVars>>

\* dragging (lines 261-276): the rectangle is moved to the clamped CSS position
dragTo(clampedLeft, clampedTop, scaleX, scaleY) ==
    /\ cropRect' = [cropRect EXCEPT !.left = Some(clampedLeft),
                                    !.top = Some(clampedTop)]
    /\ cropBox' = [cropBox EXCEPT !.x = Num(MathRound(QMul(clampedLeft, scaleX))),
                                  !.y = Num(MathRound(QMul(clampedTop, scaleY)))]

\* drawing (lines 277-293): the rectangle spans the press and the pointer
drawTo(leftCss, topCss, widthCss, heightCss, scaleX, scaleY) ==
    /\ cropRect' = [cropRect EXCEPT !.left = Some(leftCss),
                                    !.top = Some(topCss),
                                    !.width = Some(widthCss),
                                    !.height = Some(heightCss)]
    /\ cropBox' = [x |-> Num(MathRound(QMul(leftCss, scaleX))),
                   y |-> Num(MathRound(QMul(topCss, scaleY))),
                   w |-> Num(MathRound(QMul(widthCss, scaleX))),
                   h |-> Num(MathRound(QMul(heightCss, scaleY)))]

\* the mousemove handler's body (lines 258-293) for the canvas point p
mousemoveAt(p, rect) ==
    IF ~isCropping THEN UNCHANGED <<cropBox, cropRect>>
    ELSE IF isDragging
    THEN dragTo(MathMax(Num(0), MathMin(QSub(p.cssX, dragOffset[1].cssDx),
                    QSub(Num(rect.width), stylePx(cropRect.width)))),
                MathMax(Num(0), MathMin(QSub(p.cssY, dragOffset[1].cssDy),
                    QSub(Num(rect.height), stylePx(cropRect.height)))),
                QDiv(Num(canvas.width), Num(rect.width)),
                QDiv(Num(canvas.height), Num(rect.height)))
    ELSE IF cropStart # Null
    THEN drawTo(MathMin(cropStart[1].cssX, p.cssX),
                MathMin(cropStart[1].cssY, p.cssY),
                QAbs(QSub(p.cssX, cropStart[1].cssX)),
                QAbs(QSub(p.cssY, cropStart[1].cssY)),
                QDiv(Num(canvas.width), Num(rect.width)),
                QDiv(Num(canvas.height), Num(rect.height)))
    ELSE UNCHANGED <<cropBox, cropRect>>

canvas_mousemove(targets) ==
    /\ last' = "" /\ late' = FALSE
    /\ ptr \in {"up", "down"}
    /\ ptr' = ptr
    /\ \E at \in targets :
          /\ pos' = IF ptr = "down" THEN Some(at) ELSE Null
          /\ mousemoveAt(getCanvasPointFromClient(at[1], at[2]), getCanvasRect)
    /\ alert' = "" /\ ran' = FALSE
    /\ UNCHANGED <<imageVars, pointVars, cropStart, isCropping, isDragging,
                   dragOffset, applyCropBtn, resultVars, fieldVars, loadVars>>

\* lines 300-311: the crop box is clamped and the rectangle redrawn from it
syncTo(cb, kx, ky) ==
    /\ cropBox' = cb
    /\ cropRect' = [cropRect EXCEPT !.left = Some(QMul(cb.x, kx)),
                                    !.top = Some(QMul(cb.y, ky)),
                                    !.width = Some(QMul(cb.w, kx)),
                                    !.height = Some(QMul(cb.h, ky))]

\* the release over the canvas of a press made on it; the click event follows
canvas_mouseup ==
    /\ last' = "" /\ late' = FALSE
    /\ ptr = "down"
    /\ ptr' = "click"
    /\ IF ~isCropping
       THEN UNCHANGED <<isDragging, cropStart, cropBox, cropRect>>
       ELSE /\ isDragging' = FALSE
            /\ cropStart' = Null
            /\ syncTo(clampCanvasBox(cropBox),
                      QDiv(Num(getCanvasRect.width), Num(canvas.width)),
                      QDiv(Num(getCanvasRect.height), Num(canvas.height)))
    /\ alert' = "" /\ ran' = FALSE
    /\ UNCHANGED <<imageVars, pointVars, isCropping, dragOffset, applyCropBtn,
                   resultVars, fieldVars, loadVars, pos>>

\* the pointer leaves the canvas; a press under way ends outside of it, with
\* no mouseup and no click on the canvas
canvas_mouseleave ==
    /\ last' = "" /\ late' = FALSE
    /\ ptr \in {"up", "down"}
    /\ ptr' = "up"
    /\ pos' = Null
    /\ IF ~isCropping THEN UNCHANGED <<isDragging, cropStart>>
       ELSE isDragging' = FALSE /\ cropStart' = Null
    /\ alert' = "" /\ ran' = FALSE
    /\ UNCHANGED <<imageVars, pointVars, isCropping, dragOffset, cropBox, cropRect,
                   applyCropBtn, resultVars, fieldVars, loadVars>>

(***************************************************************************)
(* Apply crop                                                              *)
(***************************************************************************)
\* the crop box cb in original-image pixels (lines 327-330)
cropRegion(cb) ==
    [sx |-> MathRound(QMul(cb.x, QDiv(Num(origW), Num(canvas.width)))),
     sy |-> MathRound(QMul(cb.y, QDiv(Num(origH), Num(canvas.height)))),
     sw |-> MathRound(QMul(cb.w, QDiv(Num(origW), Num(canvas.width)))),
     sh |-> MathRound(QMul(cb.h, QDiv(Num(origH), Num(canvas.height))))]

\* the re-encoded image with the size of the whole original
cropped_whole(r) == [file |-> origImg[1].file, x |-> origImg[1].x + r.sx,
                     y |-> origImg[1].y + r.sy, width |-> origW, height |-> origH]

\* the image drawn from origImg's region r and re-encoded (lines 335-345)
cropped(r) == [file |-> origImg[1].file, x |-> origImg[1].x + r.sx,
               y |-> origImg[1].y + r.sy, width |-> r.sw, height |-> r.sh]

\* the size test of line 332 with < in the place of <=
applyRegion_zeroPasses(r) ==
    IF r.sw < 0 \/ r.sh < 0
    THEN alert' = "Crop too small." /\ UNCHANGED loadVars
    ELSE /\ Cardinality(loads) < maxInFlight
         /\ nCrops < MaxCrops
         /\ UNCHANGED maxInFlight
         /\ loads' = loads \cup {[kind |-> "crop", image |-> cropped(r),
                                  sw |-> r.sw, sh |-> r.sh,
                                  rank |-> Cardinality(loads), late |-> FALSE]}
         /\ nCrops' = nCrops + 1
         /\ alert' = ""

\* lines 332-345 for the region r of the original image
applyRegion(r) ==
    IF r.sw <= 0 \/ r.sh <= 0
    THEN alert' = "Crop too small." /\ UNCHANGED loadVars
    ELSE /\ Cardinality(loads) < maxInFlight
         /\ nCrops < MaxCrops
         /\ UNCHANGED maxInFlight
         /\ loads' = loads \cup {[kind |-> "crop", image |-> cropped(r),
                                  sw |-> r.sw, sh |-> r.sh,
                                  rank |-> Cardinality(loads), late |-> FALSE]}
         /\ nCrops' = nCrops + 1
         /\ alert' = ""

\* lines 322-330 for the clamped crop box cb
applyBox(cb) ==
    IF QLe(cb.w, Num(0)) \/ QLe(cb.h, Num(0))
    THEN alert' = "Select a valid crop area first." /\ UNCHANGED loadVars
    ELSE applyRegion(cropRegion(cb))

\* the Apply button, which can be pressed unless it is hidden
applyCropBtn_onclick ==
    /\ last' = "" /\ late' = FALSE
    /\ ptr = "up"
    /\ applyCropBtn # "none"
    /\ ran' = FALSE
    /\ UNCHANGED <<imageVars, pointVars, cropVars, resultVars, fieldVars, ptr, pos>>
    /\ IF origImg = Null \/ cropRect.display = "none"
       THEN alert' = "" /\ UNCHANGED loadVars
       ELSE applyBox(clampCanvasBox(cropBox))

\* newImage.onload (lines 346-372)
newImage_onload ==
    /\ last' = "newImage.onload"
    /\ ptr # "click"
    /\ \E l \in loads :
          /\ l.kind = "crop"
          /\ loads' = stillPending(l)
          /\ late' = l.late
          /\ origImg' = Some(l.image)
          /\ origW' = l.image.width
          /\ origH' = l.image.height
          /\ img' = Some(l.image)
          /\ canvas' = [width |-> l.sw, height |-> l.sh]
    /\ cropRect' = [cropRect EXCEPT !.display = "none"]
    /\ applyCropBtn' = "none"
    /\ isCropping' = FALSE
    /\ calib' = <<>> /\ monthPts' = <<>> /\ affine' = Null
    /\ resultsTable' = EmptyTable
    /\ annualLabel' = Null
    /\ alert' = "" /\ ran' = FALSE
    /\ UNCHANGED <<mode, startIdx, cropStart, isDragging, dragOffset, cropBox,
                   fieldVars, nCrops, maxInFlight, ptr, pos>>

(***************************************************************************)
(* The user and the specification                                          *)
(***************************************************************************)
\* a click now would be taken as a month point
wouldMark ==
    /\ Len(calib) = 2 /\ affine # Null
    /\ ~(isCropping /\ cropRect.display = "block")

\* Where the user presses: on the next data point of the curve when the
\* click marks a month, on the corner of the region to crop with crop mode
\* on, and on an axis reference otherwise.
pressTargets ==
    IF wouldMark THEN {Curve((Len(monthPts) % 12) + 1)}
    ELSE IF isCropping THEN {Marks[2]} ELSE AxisMarks

\* Where the pointer moves: to the opposite corner during a crop gesture; a
\* press that marks a point is released where it was made.
moveTargets ==
    IF pos # Null /\ (~isCropping \/ wouldMark) THEN {pos[1]} ELSE {Marks[1]}

Next ==
    \/ upload_onchange(Files)
    \/ reader_onload
    \/ resetBtn_onclick
    \/ undoBtn_onclick
    \/ canvas_mousedown(pressTargets)
    \/ canvas_mousemove(moveTargets)
    \/ canvas_mouseup
    \/ canvas_mouseleave
    \/ canvas_click
    \/ setCalibBtn_onclick
    \/ cropToggle_onclick
    \/ applyCropBtn_onclick
    \/ newImage_onload

Spec == Init /\ [][Next]_vars

\* The life of one chart with the Y-max field edited at any time.
NextBounds ==
    \/ upload_onchange({"b.png"})
    \/ reader_onload
    \/ resetBtn_onclick
    \/ canvas_mousedown(pressTargets)
    \/ canvas_mousemove(moveTargets)
    \/ canvas_mouseup
    \/ canvas_click
    \/ setCalibBtn_onclick
    \/ EditYmax(YmaxTexts)
    \/ cropToggle_onclick
    \/ applyCropBtn_onclick
    \/ newImage_onload

SpecBounds == Init /\ [][NextBounds]_vars

\* Calibration and extraction with the input fields edited at any time, on
\* the canvas as it is before any upload.
StartNames == {"Jan", "Jul", "Dec"}

NextFields ==
    \/ EditYmin(YminTexts)
    \/ EditYmax(YmaxTexts)
    \/ EditMode(ModeOptions)
    \/ EditStart(StartNames)
    \/ canvas_mousedown(pressTargets)
    \/ canvas_mouseup
    \/ canvas_click
    \/ setCalibBtn_onclick
    \/ undoBtn_onclick
    \/ resetBtn_onclick

SpecFields == Init /\ [][NextFields]_vars

\* Calibration with bounds that are decimal fractions.
YminDecimals == {"0", "0.2", "abc"}

YmaxDecimals == {"1000", "0.9", "0.5"}

NextDecimals ==
    \/ EditYmin(YminDecimals)
    \/ EditYmax(YmaxDecimals)
    \/ canvas_mousedown(pressTargets)
    \/ canvas_mouseup
    \/ canvas_click
    \/ setCalibBtn_onclick
    \/ resetBtn_onclick

SpecDecimals == Init /\ [][NextDecimals]_vars

(***************************************************************************)
(* The crop session: the user uploads an image larger or smaller than the  *)
(* canvas, and with crop mode on presses and moves between the three marks *)
(***************************************************************************)
\* an image of 6 x 9 pixels, larger than the canvas
CropFiles == {"b.png"}

\* an image of 1 x 2 pixels, smaller than the canvas
TinyFiles == {"c.png"}

\* with crop mode off the user makes no gesture on the canvas
cropTargets == IF isCropping THEN CropMarks ELSE {}

NextCrop ==
    \/ upload_onchange(CropFiles)
    \/ reader_onload
    \/ resetBtn_onclick
    \/ cropToggle_onclick
    \/ canvas_mousedown(cropTargets)
    \/ canvas_mousemove(cropTargets)
    \/ canvas_mouseup
    \/ canvas_mouseleave
    \/ canvas_click
    \/ applyCropBtn_onclick
    \/ newImage_onload

SpecCrop == Init /\ [][NextCrop]_vars

NextTiny ==
    \/ upload_onchange(TinyFiles)
    \/ reader_onload
    \/ resetBtn_onclick
    \/ cropToggle_onclick
    \/ canvas_mousedown(cropTargets)
    \/ canvas_mousemove(cropTargets)
    \/ canvas_mouseup
    \/ canvas_mouseleave
    \/ canvas_click
    \/ applyCropBtn_onclick
    \/ newImage_onload

SpecTiny == Init /\ [][NextTiny]_vars

(***************************************************************************)
(* Overlapping loads: the user does not wait for an upload or a crop to    *)
(* complete before starting the next one                                   *)
(***************************************************************************)
\* how many loads the user lets be in flight here
MaxPending == 2

InitRace ==
    /\ origImg = Null /\ origW = 0 /\ origH = 0 /\ img = Null
    /\ canvas = [width |-> CanvasW0, height |-> CanvasH0]
    /\ calib = <<>> /\ monthPts = <<>> /\ affine = Null
    /\ mode = Undefined /\ startIdx = Null
    /\ cropStart = Null /\ isCropping = FALSE /\ isDragging = FALSE
    /\ dragOffset = Null /\ cropBox = ZeroBox
    /\ cropRect = [display |-> "", left |-> Null, top |-> Null, width |-> Null,
                   height |-> Null]
    /\ applyCropBtn = ""
    /\ resultsTable = EmptyTable /\ annualLabel = Null
    /\ yminEl = "0" /\ ymaxEl = "1000" /\ modeEl = "Total" /\ startEl = "Jan"
    /\ loads = {}
    /\ ptr = "up" /\ pos = Null
    /\ nCrops = 0 /\ maxInFlight = MaxPending
    /\ last = "" /\ late = FALSE /\ alert = "" /\ ran = FALSE

\* the user marks the two axis references and one data point, and draws one
\* crop box
raceTargets == IF wouldMark /\ monthPts # <<>> THEN {} ELSE pressTargets

NextRace ==
    \/ upload_onchange(Files)
    \/ reader_onload
    \/ canvas_mousedown(raceTargets)
    \/ canvas_mousemove(moveTargets)
    \/ canvas_mouseup
    \/ canvas_click
    \/ setCalibBtn_onclick
    \/ cropToggle_onclick
    \/ applyCropBtn_onclick
    \/ newImage_onload

SpecRace == InitRace /\ [][NextRace]_vars

(***************************************************************************)
(* clampCanvasBox as a function: a specification that starts from any box  *)
(* and any canvas size and applies the clamp                               *)
(***************************************************************************)
\* the coordinates and lengths a box is given: negative, fractional (with
\* halves, which Math.round takes upwards), inside and beyond the canvas
ClampValues == {Q(-3, 2), Num(-1), Num(0), Q(1, 2), Q(5, 2), Num(3), Num(9)}

\* the canvas sizes
ClampSizes == {[width |-> 1, height |-> 2], [width |-> CanvasW0, height |-> CanvasH0]}

InitClamp ==
    /\ origImg = Null /\ origW = 0 /\ origH = 0 /\ img = Null
    /\ canvas \in ClampSizes
    /\ calib = <<>> /\ monthPts = <<>> /\ affine = Null
    /\ mode = Undefined /\ startIdx = Null
    /\ cropStart = Null /\ isCropping = TRUE /\ isDragging = FALSE
    /\ dragOffset = Null
    /\ cropBox \in [x : ClampValues, y : ClampValues, w : ClampValues, h : ClampValues]
    /\ cropRect = [display |-> "block", left |-> Null, top |-> Null, width |-> Null,
                   height |-> Null]
    /\ applyCropBtn = "inline"
    /\ resultsTable = EmptyTable /\ annualLabel = Null
    /\ yminEl = "0" /\ ymaxEl = "1000" /\ modeEl = "Total" /\ startEl = "Jan"
    /\ loads = {}
    /\ ptr = "up" /\ pos = Null
    /\ nCrops = 0 /\ maxInFlight = MaxLoads
    /\ last = "" /\ late = FALSE /\ alert = "" /\ ran = FALSE

\* cropBox = clampCanvasBox(cropBox) (line 300)
clampStep ==
    /\ last' = "clampCanvasBox" /\ late' = FALSE
    /\ cropBox' = clampCanvasBox(cropBox)
    /\ alert' = "" /\ ran' = FALSE
    /\ UNCHANGED <<imageVars, pointVars, cropStart, isCropping, isDragging, dragOffset,
                   cropRect, applyCropBtn, resultVars, fieldVars, loadVars, ptr, pos>>

NextClamp == clampStep

SpecClamp == InitClamp /\ [][NextClamp]_vars

(***************************************************************************)
(* Properties                                                              *)
(***************************************************************************)
\* C1: in every reachable state the calibration set holds at most 2 points
\* and the month point set at most 12, and a canvas click made while the
\* calibration set has 2 points leaves the calibration set as it is.
C1_PointSetsBounded ==
    /\ [](Len(calib) <= 2 /\ Len(monthPts) <= 12)
    /\ [][canvas_click /\ Len(calib) = 2 => calib' = calib]_vars

\* both sets are full: clicks were made with 2 calibration points
C1_Witness == Len(calib) = 2 /\ Len(monthPts) = 12

\* C2: a canvas click appends one month point, and does so only when the
\* map is present and fewer than 12 month points exist; otherwise it leaves
\* the month points alone.  So month points exist only with a map, and a map
\* only with exactly 2 calibration points.
C2_MonthPointsNeedMap ==
    /\ [][canvas_click =>
            \/ monthPts' = monthPts
            \/ /\ affine # Null /\ Len(monthPts) < 12
               /\ Len(monthPts') = Len(monthPts) + 1
               /\ SubSeq(monthPts', 1, Len(monthPts)) = monthPts]_vars
    /\ [](monthPts # <<>> => affine # Null)
    /\ [](affine # Null => Len(calib) = 2)

\* some month points were appended, and more can be
C2_Witness == Len(monthPts) = 3 /\ affine # Null /\ Len(calib) = 2

\* C3: computeResults runs in a step exactly when that step is the click that
\* takes the month points from 11 to 12, and when it has run there are 12
\* month points, a map, and the table it filled.
C3_RunsOnTwelfth ==
    /\ [][ran' <=> (canvas_click /\ Len(monthPts) = 11 /\ Len(monthPts') = 12)]_vars
    /\ [](ran => Len(monthPts) = 12 /\ affine # Null /\ Len(resultsTable.rows) = 12)

\* the twelfth point has just been added and the table filled
C3_Witness == ran /\ Len(monthPts) = 12 /\ annualLabel # Null

\* C4: a present map was built from the current calibration points and
\* from the bounds now in the Y-min and Y-max fields, and the map becomes
\* absent in every step that changes the calibration set, either field, or
\* the image.
C4_MapTracksInputs ==
    /\ [](affine # Null =>
            /\ Len(calib) = 2
            /\ affine[1].yb = calib[1][2]
            /\ affine[1].pixelRange = QSub(calib[1][2], calib[2][2])
            /\ affine[1].vmin = parseFloat(yminEl)
            /\ affine[1].dataRange = NumSub(parseFloat(ymaxEl), parseFloat(yminEl)))
    /\ [][(calib' # calib \/ yminEl' # yminEl \/ ymaxEl' # ymaxEl) => affine' = Null]_vars
    /\ [][last' \in {"reader.onload", "newImage.onload"} => affine' = Null]_vars

\* the table has just been computed with a map whose range is not the one
\* the fields now give
C4_Witness ==
    /\ ran
    /\ affine[1].dataRange # NumSub(parseFloat(ymaxEl), parseFloat(yminEl))

\* C5: when an upload completes, calib and monthPts are empty, the map is
\* absent, the crop box is the empty box and the table and the annual label
\* are cleared.
C5_UploadResets ==
    [][last' = "reader.onload" =>
         /\ calib' = <<>> /\ monthPts' = <<>> /\ affine' = Null
         /\ cropBox' = ZeroBox
         /\ resultsTable' = EmptyTable /\ annualLabel' = Null]_vars

\* an upload has completed with crop mode on and a box drawn: the box is
\* still there, crop mode is still on, and the rectangle and the Apply
\* button are hidden
C5_Witness ==
    /\ last = "reader.onload"
    /\ cropBox # ZeroBox /\ isCropping
    /\ cropRect.display = "none" /\ applyCropBtn = "none"

C7_ResetKeepsImage ==
    [][last' = "reset" =>
         /\ calib' = <<>> /\ monthPts' = <<>> /\ affine' = Null
         /\ cropBox' = ZeroBox /\ ~isCropping'
         /\ UNCHANGED <<origImg, origW, origH, img, canvas>>]_vars

\* a reset has run on a cropped image, after a calibration had been set
C7_Witness ==
    /\ last = "reset" /\ origImg # Null /\ mode # Undefined
    /\ canvas # [width |-> CanvasW0, height |-> CanvasH0]

\* C8: undo takes the last month point away, so that appending a point and
\* undoing gives the sequence back; on no month points it changes nothing;
\* and it leaves the calibration set, the map, the image and the crop state
\* as they were.
C8_UndoStackLike ==
    /\ [][undoBtn_onclick =>
            /\ monthPts = <<>> => monthPts' = <<>>
            /\ monthPts # <<>> => monthPts = Append(monthPts', monthPts[Len(monthPts)])
            /\ UNCHANGED <<calib, affine, imageVars, cropVars>>]_vars
    /\ [][canvas_click /\ monthPts' # monthPts => pop(monthPts') = monthPts]_vars

\* the twelfth point has been undone: the table of 12 rows is still shown
C8_Witness == Len(monthPts) = 11 /\ Len(resultsTable.rows) = 12

\* what C10 gives for row i (i = 0..11): its month, its axis value and its
\* final value; and the sum of the first n final values
C10_month(i) == ((startIdx[1] + i) % 12) + 1

C10_axisVal(i) == affineAt(affine[1], monthPts[i + 1][1], monthPts[i + 1][2])

C10_finalVal(i) ==
    IF mode = "Daily average"
    THEN NumMul(C10_axisVal(i), Num(daysInMonth[C10_month(i)]))
    ELSE C10_axisVal(i)

RECURSIVE C10_sum(_)
C10_sum(n) == IF n = 0 THEN Num(0) ELSE NumAdd(C10_sum(n - 1), C10_finalVal(n - 1))

\* C10: when computeResults has run with a start month index in 0..11, row
\* i of the table, in click order, shows the month name of index
\* (startIdx + i) mod 12, the axis value of the i-th month point, and as
\* final value the axis value (mode Total) or the axis value times the days
\* of that month (mode Daily average); the annual label shows the sum of the
\* 12 final values.  Values are shown with two decimals.
C10_ResultRows ==
    ran /\ startIdx[1] \in 0..11 =>
        /\ Len(resultsTable.rows) = 12
        /\ \A i \in 0..11 :
              resultsTable.rows[i + 1] =
                  [monthName |-> calendarNames[C10_month(i)],
                   axisVal |-> toFixed2(C10_axisVal(i)),
                   finalVal |-> toFixed2(C10_finalVal(i))]
        /\ annualLabel = Some(toFixed2(C10_sum(12)))

\* the table has been computed for daily averages of a year that starts in
\* July, after the mode field was put back to Total
C10_Witness ==
    /\ ran /\ mode = "Daily average" /\ startIdx = Some(6)
    /\ modeEl = "Total" /\ startEl = "Jan"

\* the press of Set Calibration in this step built the map
C9_built == setCalibBtn_onclick /\ alert' = "" /\ affine' # Null

\* the ordinate midway between the two calibration points
C9_midY == QDiv(QAdd(calib[1][2], calib[2][2]), Num(2))

\* the value midway between the two bounds
C9_midValue == NumMul(NumFromQ(Q(1, 2)), NumAdd(parseFloat(yminEl), parseFloat(ymaxEl)))

\* C9: the map Set Calibration builds from two calibration points and two
\* bounds gives vmin at yb and vmax at yt, whatever x, and the value midway
\* between the bounds at the ordinate midway between the points.
C9_Interpolates ==
    [][C9_built =>
         \A x \in {calib[1][1], calib[2][1]} :
            /\ affineAt(affine'[1], x, calib[1][2]) = parseFloat(yminEl)
            /\ affineAt(affine'[1], x, calib[2][2]) = parseFloat(ymaxEl)
            /\ affineAt(affine'[1], x, C9_midY) = C9_midValue]_vars

\* C9 as the code has it: the map gives vmin at yb, whatever x; at yt it
\* gives the double vmin + (vmax - vmin), and midway vmin + 0.5 * (vmax -
\* vmin); these are vmax and the value midway between the bounds when the
\* bounds are whole numbers.
C9_InterpolatesRounded ==
    [][C9_built =>
         LET vmin == parseFloat(yminEl)
             vmax == parseFloat(ymaxEl)
             whole == decimal(yminEl)[2] = 1 /\ decimal(ymaxEl)[2] = 1
         IN  \A x \in {calib[1][1], calib[2][1]} :
                /\ affineAt(affine'[1], x, calib[1][2]) = vmin
                /\ affineAt(affine'[1], x, calib[2][2]) = NumAdd(vmin, NumSub(vmax, vmin))
                /\ affineAt(affine'[1], x, C9_midY) =
                       NumAdd(vmin, NumMul(NumFromQ(Q(1, 2)), NumSub(vmax, vmin)))
                /\ whole => /\ affineAt(affine'[1], x, calib[2][2]) = vmax
                            /\ affineAt(affine'[1], x, C9_midY) = C9_midValue]_vars

\* a map has been built from the bounds 0.2 and 0.9, with the top reference
\* above the bottom one
C9_Witness ==
    /\ affine # Null /\ alert = "" /\ monthPts = <<>>
    /\ affine[1].vmin = parseFloat("0.2")
    /\ affine[1].dataRange = NumSub(parseFloat("0.9"), parseFloat("0.2"))
    /\ QLt(Num(0), affine[1].pixelRange)

\* C11: clamping a clamped box gives the same box, for any box and any
\* canvas size.
C11_ClampIdempotent ==
    [][clampStep => clampCanvasBox(cropBox') = cropBox']_vars

\* a box has been clamped that reached beyond the right and bottom edges:
\* its origin is inside the canvas and its width and height were cut to what
\* is left of the canvas
C11_Witness ==
    /\ last = "clampCanvasBox"
    /\ QLt(Num(0), cropBox.x) /\ QLt(Num(0), cropBox.y)
    /\ QLt(Num(0), cropBox.w) /\ QLt(Num(0), cropBox.h)
    /\ cropBox.w = QSub(Num(canvas.width), cropBox.x)
    /\ cropBox.h = QSub(Num(canvas.height), cropBox.y)

\* the messages that report an empty crop
C12_EmptyCrop == {"Select a valid crop area first.", "Crop too small."}

\* the crop box as clamped has no width or no height, or has none once it
\* is scaled to the original image and rounded
C12_empty ==
    \/ QLe(clampCanvasBox(cropBox).w, Num(0))
    \/ QLe(clampCanvasBox(cropBox).h, Num(0))
    \/ MathRound(QMul(clampCanvasBox(cropBox).w, QDiv(Num(origW), Num(canvas.width)))) <= 0
    \/ MathRound(QMul(clampCanvasBox(cropBox).h, QDiv(Num(origH), Num(canvas.height)))) <= 0

\* C12: a press of Apply with an image loaded and the rectangle shown, on a
\* crop box that is empty once clamped or once mapped to the original image,
\* reports an empty crop and changes nothing: the image, origW, origH, the
\* canvas size, the points, the map, the crop box, crop mode and the loads
\* in flight stay as they were; and no other press of Apply reports one.
C12_EmptyCropNoChange ==
    /\ [][applyCropBtn_onclick /\ origImg # Null /\ cropRect.display # "none"
           /\ C12_empty
           => /\ alert' \in C12_EmptyCrop
              /\ UNCHANGED <<imageVars, calib, monthPts, affine, cropBox, isCropping,
                             cropStart, isDragging, dragOffset, cropRect, loads>>]_vars
    /\ [][alert' \in C12_EmptyCrop
           => applyCropBtn_onclick /\ origImg # Null /\ C12_empty]_vars

\* Apply has just refused a box that has a width and a height on the canvas
\* and none on the image
C12_Witness ==
    /\ alert = "Crop too small."
    /\ QLt(Num(0), cropBox.w) /\ QLt(Num(0), cropBox.h)
    /\ loads = {} /\ origW = 1

\* a press of Set Calibration now fails: fewer than 2 calibration points, a
\* bound that is no number, or the two points less than 1e-6 apart in y
C13_fails ==
    \/ Len(calib) < 2
    \/ IsNaN(decimal(yminEl)) \/ IsNaN(decimal(ymaxEl))
    \/ QLt(QAbs(QSub(calib[1][2], calib[2][2])), Q(1, 1000000))

\* C13: a press of Set Calibration that fails reports it and leaves the map
\* (present or absent), the stored mode and start index, the calibration
\* points and the month points as they were; a press that does not fail
\* reports nothing.
C13_FailedCalibrationNoChange ==
    [][setCalibBtn_onclick =>
         IF C13_fails
         THEN alert' # "" /\ UNCHANGED <<affine, mode, startIdx, calib, monthPts>>
         ELSE alert' = "" /\ affine' # Null]_vars

\* a press has just failed on a bound that is no number, with the map of an
\* earlier calibration and month points in place
C13_Witness ==
    /\ alert = "Enter numeric Y-min and Y-max"
    /\ affine # Null /\ monthPts # <<>> /\ mode = "Total"

\* C14: the region (sx, sy, sw, sh) of every crop that Apply accepts lies
\* inside the original image: sx + sw <= origW and sy + sh <= origH.
C14_CropInsideOriginal ==
    [][applyCropBtn_onclick =>
         \A l \in loads' \ loads :
            /\ (l.image.x - origImg[1].x) + l.sw <= origW
            /\ (l.image.y - origImg[1].y) + l.sh <= origH]_vars

\* a crop is in flight whose region reaches beyond the right edge of the
\* original image
C14_Witness ==
    \E l \in loads :
       /\ l.kind = "crop" /\ origImg # Null
       /\ (l.image.x - origImg[1].x) + l.sw > origW

\* C15: in every reachable state at most one load (an upload being read and
\* decoded, or a crop being re-encoded) is in flight, and when a load has
\* just completed the original image, the displayed image and the recorded
\* size are all those of one image.
C15_OneLoadAtATime ==
    /\ Cardinality(loads) <= 1
    /\ last \in {"reader.onload", "newImage.onload"} =>
          /\ origImg # Null /\ img = origImg
          /\ origW = origImg[1].width /\ origH = origImg[1].height

\* an upload and a crop of the image it will replace are both in flight
C15_Witness ==
    /\ \E l \in loads : l.kind = "upload"
    /\ \E l \in loads : l.kind = "crop"

\* C16: whenever a load completes, and so also when it completes last of
\* two loads after having been requested first, the original and the
\* displayed image and the recorded size are those of the completing load,
\* a completing crop also sets the canvas size to (sw, sh), and the
\* calibration points, the month points and the map are cleared, whatever
\* was set up since the other load completed.
C16_LastCompleterWins ==
    [][last' \in {"reader.onload", "newImage.onload"} =>
         \E l \in loads :
            /\ Cardinality(loads') = Cardinality(loads) - 1
            /\ l.late = late'
            /\ l.kind = (IF last' = "reader.onload" THEN "upload" ELSE "crop")
            /\ origImg' = Some(l.image) /\ img' = Some(l.image)
            /\ origW' = l.image.width /\ origH' = l.image.height
            /\ canvas' = (IF l.kind = "crop" THEN [width |-> l.sw, height |-> l.sh]
                          ELSE canvas)
            /\ calib' = <<>> /\ monthPts' = <<>> /\ affine' = Null]_vars

\* the upload of a.png, requested before the upload of b.png, has completed
\* after it: no load is in flight and a.png is the image
C16_Witness ==
    /\ late /\ last = "reader.onload" /\ loads = {}
    /\ origImg = Some(decoded("a.png")) /\ origW = 4 /\ calib = <<>>

\* the crop of an image completes after the upload that replaced the image
C16_WitnessCrop ==
    /\ late /\ last = "newImage.onload" /\ loads = {}
    /\ canvas = [width |-> origW, height |-> origH]

\* the step is a press on the canvas with crop mode on
C17_press == ptr = "up" /\ ptr' = "down" /\ isCropping

\* the canvas point of that press
C17_point == getCanvasPointFromClient(pos'[1][1], pos'[1][2])

\* the press is inside the crop box, which has a width and a height
C17_inBox ==
    /\ QLt(Num(0), cropBox.w) /\ QLt(Num(0), cropBox.h)
    /\ QLe(cropBox.x, C17_point.cx) /\ QLe(C17_point.cx, QAdd(cropBox.x, cropBox.w))
    /\ QLe(cropBox.y, C17_point.cy) /\ QLe(C17_point.cy, QAdd(cropBox.y, cropBox.h))

\* C17: with crop mode on, a press inside the crop box, which then has a
\* positive width and height, starts dragging and leaves the box as it is;
\* every other press starts drawing, with the crop box the zero-size box at
\* the press point.  So no press starts dragging while the crop box is the
\* zero-size box, as it is after crop mode is turned on.
C17_DragOnlyInsideBox ==
    [][C17_press =>
         IF C17_inBox
         THEN isDragging' /\ cropStart' = Null /\ cropBox' = cropBox
         ELSE /\ ~isDragging' /\ cropStart' # Null
              /\ cropBox' = [x |-> C17_point.cx, y |-> C17_point.cy,
                             w |-> Num(0), h |-> Num(0)]]_vars

\* a press is dragging while the crop box has no width and no height: it
\* is the box crop mode was turned on with, and the press fell inside the
\* rectangle of an earlier crop session
C17_Witness ==
    /\ isCropping /\ isDragging /\ ptr = "down"
    /\ cropBox = ZeroBox /\ cropRect.display = "block"

\* the box b lies in the canvas
C18_contained(b) ==
    /\ QLe(Num(0), b.x) /\ QLe(Num(0), b.y) /\ QLe(Num(0), b.w) /\ QLe(Num(0), b.h)
    /\ QLe(QAdd(b.x, b.w), Num(canvas.width))
    /\ QLe(QAdd(b.y, b.h), Num(canvas.height))

\* the step is a move of the pointer during a drag
C18_dragMove == isCropping /\ isDragging /\ isDragging' /\ ptr = "down" /\ ptr' = "down"

\* C18: a move of the pointer during a drag leaves the crop box's width and
\* height as they are and leaves the box inside the canvas; and with crop
\* mode on and no press under way the crop box lies inside the canvas.
C18_BoxStaysInside ==
    /\ [][C18_dragMove =>
            /\ cropBox'.w = cropBox.w /\ cropBox'.h = cropBox.h
            /\ C18_contained(cropBox')]_vars
    /\ [][isCropping' /\ ptr' = "up" => C18_contained(cropBox')]_vars

\* C18, the part about the size alone
C18_DragKeepsSize ==
    [][C18_dragMove => cropBox'.w = cropBox.w /\ cropBox'.h = cropBox.h]_vars

\* C18, the part about the box at rest
C18_SizedInside ==
    [][isCropping' /\ ptr' = "up" => C18_contained(cropBox')]_vars

\* a drag has moved the crop box past the edge of the canvas
C18_Witness ==
    /\ isCropping /\ isDragging /\ ptr = "down" /\ last = ""
    /\ ~C18_contained(cropBox)

\* the step is the click that ends a gesture on the canvas with crop mode on
C19_click == isCropping /\ ptr = "click" /\ ptr' = "up" /\ pos' = Null

\* C19: with crop mode on, the click that ends a gesture on the canvas adds
\* no calibration point and no month point.
C19_CropModeAddsNoPoint ==
    [][C19_click => calib' = calib /\ monthPts' = monthPts]_vars

\* a click has added a point with crop mode on and the rectangle hidden
C19_Witness ==
    /\ isCropping /\ cropRect.display = "none" /\ ptr = "up" /\ last = ""
    /\ cropStart = Null /\ ~isDragging
    /\ Len(calib) + Len(monthPts) > 0

\* results are on the page: the table has rows or the annual total is written
C20_displayed == resultsTable.rows # <<>> \/ annualLabel # Null

\* C20: results are on the page only with exactly 12 month points and a
\* present map, and they are then the table and the annual total that the
\* extraction gives for the current month points, map, mode and start index.
C20_ResultsNeverStale ==
    C20_displayed =>
        /\ Len(monthPts) = 12 /\ affine # Null
        /\ resultsTable = computeResults(monthPts).table
        /\ annualLabel = computeResults(monthPts).label

\* the table of the twelve points is on the page after undo took one away
C20_Witness ==
    /\ C20_displayed /\ Len(resultsTable.rows) = 12 /\ annualLabel # Null
    /\ Len(monthPts) = 11 /\ affine # Null /\ last = "" /\ ~ran

=============================================================================
